---- MODULE Spec2Model ----
(***************************************************************************)
(* Model of chess_train.py: the interactive session between a human and a  *)
(* UCI engine.  The state machine is play_chess() together with the        *)
(* start-up and shutdown code of the __main__ block.                       *)
(*                                                                         *)
(* The rules library (chess.Board) and the engine process are external.    *)
(* The rules library is abstracted by a small game: a position is the side *)
(* to move, a half-move clock, a checkmate flag and the move stack; the    *)
(* legal moves are coordinate strings that depend on the side to move and  *)
(* the clock.  The engine is an environment that answers each request with *)
(* a legal move, an evaluation, or a failure.                              *)
(***************************************************************************)
EXTENDS Integers, Sequences, FiniteSets, TLC

\* ------------------------------------------------------------------ bounds
\* the game is drawn (is_game_over) when the half-move clock reaches DrawClock
DrawClock == 3
\* cap on the inputs that do not advance the game (!help, rejected input)
MaxRejects == 2

\* --------------------------------------------------------------- constants
DEFAULT_MAX_ENGINE_LIMIT == 1

WHITE == TRUE
BLACK == FALSE

\* ----------------------------------------------------------------- strings
\* A Python str is a sequence of one-character strings.
S_help      == <<"!","h","e","l","p">>
S_bestMove  == <<"!","b","e","s","t","M","o","v","e">>
S_saveState == <<"!","s","a","v","e","S","t","a","t","e">>
S_log_      == <<"l","o","g","_">>
S_chess     == <<".","c","h","e","s","s">>

e2e4  == <<"e","2","e","4">>
g1f3  == <<"g","1","f","3">>
d1h5  == <<"d","1","h","5">>
e7e5  == <<"e","7","e","5">>
d8h4  == <<"d","8","h","4">>
e2e1  == <<"e","2","e","1">>
e7e8q == <<"e","7","e","8","q">>

\* what the human may type at the prompt
UserInputs ==
  { S_help, S_bestMove,
    S_saveState,
    S_saveState \o <<" ">>,
    S_saveState \o <<" ","a">>,
    S_saveState \o <<" ","a"," ","b">>,
    S_saveState \o <<" "," ","a">>,
    S_saveState \o <<"a">>,
    e2e4, g1f3, d1h5, e7e5, d8h4,
    e2e1, e7e8q,
    <<"e","2","e","9">>, << >> }

\* values of datetime.now().strftime("%Y%m%d%H%M%S")
Timestamps == { <<"2","0","2","4">>, <<"2","0","2","5">> }

Take(s, n) == SubSeq(s, 1, IF Len(s) < n THEN Len(s) ELSE n)

\* index of the first occurrence of character c in s at or after i, 0 if none
RECURSIVE Find(_, _, _)
Find(s, c, i) ==
  IF i > Len(s) THEN 0
  ELSE IF s[i] = c THEN i
  ELSE Find(s, c, i + 1)

\* str.split(sep, maxsplit): the list of parts
RECURSIVE split(_, _, _)
split(s, sep, maxsplit) ==
  LET i == Find(s, sep, 1) IN
  IF maxsplit = 0 \/ i = 0 THEN << s >>
  ELSE << SubSeq(s, 1, i - 1) >> \o split(SubSeq(s, i + 1, Len(s)), sep, maxsplit - 1)

\* str.strip()
RECURSIVE strip(_)
strip(s) ==
  IF s = << >> THEN s
  ELSE IF Head(s) = " " THEN strip(Tail(s))
  ELSE IF s[Len(s)] = " " THEN strip(SubSeq(s, 1, Len(s) - 1))
  ELSE s

Files == {"a","b","c","d","e","f","g","h"}
Ranks == {"1","2","3","4","5","6","7","8"}
Promo == {"q","r","b","n"}

\* re.compile(r'^[a-h][1-8][a-h][1-8][qrbn]?$').match
is_uci_move(move_str) ==
  /\ Len(move_str) \in {4, 5}
  /\ move_str[1] \in Files
  /\ move_str[2] \in Ranks
  /\ move_str[3] \in Files
  /\ move_str[4] \in Ranks
  /\ Len(move_str) = 5 => move_str[5] \in Promo

\* ------------------------------------------------------- the rules library
\* chess.Board(): the starting position
StartBoard == [turn |-> WHITE, clock |-> 0, mated |-> FALSE, move_stack |-> << >>]

\* board.legal_moves
legal_moves(b) ==
  IF b.mated THEN {}
  ELSE IF b.turn = WHITE
       THEN {e2e4, g1f3} \cup (IF b.clock >= 2 THEN {d1h5} ELSE {})
       ELSE {e7e5} \cup (IF b.clock >= 1 THEN {d8h4} ELSE {})

MateMoves == {d1h5, d8h4}

\* board.is_game_over(): checkmate, or a draw by the move-count rule
is_game_over(b) == b.mated \/ b.clock >= DrawClock

\* board.result()
result(b) ==
  IF b.mated THEN (IF b.turn = WHITE THEN "0-1" ELSE "1-0")
  ELSE IF b.clock >= DrawClock THEN "1/2-1/2"
  ELSE "*"

\* board.push(move): does not check legality
push(b, m) ==
  [turn |-> ~ b.turn, clock |-> b.clock + 1,
   mated |-> (m \in MateMoves /\ m \in legal_moves(b)),
   move_stack |-> Append(b.move_stack, m)]

\* boards a resume file may hold
MidBoard  == push(StartBoard, e2e4)
MateBoard == push(push(push(StartBoard, g1f3), e7e5), d1h5)
SavedBoards == { MidBoard, MateBoard }

\* pickle.dump / pickle.load of a board
pickle_dump(b) == << "Board", b.turn, b.clock, b.mated, b.move_stack >>
\* variant: the side to move is not restored
pickle_load_noturn(bytes) ==
  [turn |-> WHITE, clock |-> bytes[3], mated |-> bytes[4], move_stack |-> bytes[5]]

pickle_load(bytes) ==
  [turn |-> bytes[2], clock |-> bytes[3], mated |-> bytes[4], move_stack |-> bytes[5]]

\* --------------------------------------------------------- search limits
\* chess.engine.Limit: each bound is a set, empty for None
Limit(time, depth) == [time |-> time, depth |-> depth]
NoLimit == Limit({}, {})

\* no evaluation has been requested yet
NoEvaluation ==
  [tag |-> "none", cp |-> 0, turn |-> WHITE, probs |-> << << 0, 1 >>, << 0, 1 >> >>]

\* ------------------------------------------------------------------- state
VARIABLES
  pc,            \* control position
  config,        \* the parsed config file and command line
  player_side, show_score, engine_limits, log_file, saved_game, file,
  board,         \* chess.Board
  transcript,    \* lines of the log file
  engine,        \* the engine process: "absent", "running", "closed"
  quits,         \* how many times the engine process was disposed
  requests,      \* requests sent to the engine
  user_input, rejects,
  player_score,
  evaluation,    \* the last answer to an evaluation request and what was made of it
  snapshot,      \* the file written by !saveState
  outcome, error,
  applied        \* the half-moves pushed: position before and move

vars == << pc, config, player_side, show_score, engine_limits, log_file,
           saved_game, file, board, transcript, engine, quits, requests,
           user_input, rejects, player_score, evaluation, snapshot, outcome,
           error, applied >>

\* random_side is what random.choice returns when it is called
Configs ==
  [ side       : { {}, {"WHITE"}, {"BLACK"} },
    random_side : {BLACK, WHITE},
    show_score : BOOLEAN,
    log_file   : { {}, {"game.log"} },
    time       : { {}, {2} },
    depth      : { {} },
    resumeGame : { {} } \cup { {b} : b \in SavedBoards } ]

Init ==
  /\ pc = "main"
  /\ config \in Configs
  /\ config.side # {} => config.random_side = BLACK
  /\ player_side = WHITE
  /\ show_score = FALSE
  /\ engine_limits = NoLimit
  /\ log_file = "None"
  /\ saved_game = {}
  /\ file = "unbound"
  /\ board = StartBoard
  /\ transcript = << >>
  /\ engine = "absent"
  /\ quits = 0
  /\ requests = << >>
  /\ user_input = << >>
  /\ rejects = 0
  /\ player_score = << 0, 1 >>
  /\ evaluation = NoEvaluation
  /\ snapshot = {}
  /\ outcome = "running"
  /\ error = "none"
  /\ applied = << >>


\* ----------------------------------------------------------------- helpers
TheOne(S) == CHOOSE x \in S : TRUE

\* the position part of a board (everything but the move stack)
Position(b) == [turn |-> b.turn, clock |-> b.clock, mated |-> b.mated]

Line(kind, val) == [kind |-> kind, val |-> val]

\* variant: the engine is opened without the with statement
LeaveWithLeak ==
  UNCHANGED << engine, quits >>

\* the with statement around the turn loop: leaving it disposes the engine
LeaveWith ==
  /\ engine' = "closed"
  /\ quits' = quits + 1

\* an exception raised before or after the with block
RaiseOutside(err) ==
  /\ outcome' = "Raised"
  /\ error' = err
  /\ pc' = "exit"
  /\ UNCHANGED << engine, quits >>

\* an exception raised inside the with block and not caught
RaiseInside(err) ==
  /\ outcome' = "Raised"
  /\ error' = err
  /\ pc' = "exit"
  /\ LeaveWith

\* ---------------------------------------------------------------- start-up
\* python's == between the configured or randomly chosen side and 'WHITE'
side_value(cfg, choice) ==
  IF cfg.side # {} THEN [tag |-> "str", s |-> TheOne(cfg.side)]
  ELSE [tag |-> "bool", b |-> choice]

main_player_side(cfg, choice) ==
  LET v == side_value(cfg, choice) IN
  IF v.tag = "str" /\ v.s = "WHITE" THEN WHITE ELSE BLACK

main_engine_limits(cfg) ==
  Limit(IF cfg.time = {} THEN {DEFAULT_MAX_ENGINE_LIMIT} ELSE cfg.time, cfg.depth)

\* the __main__ block up to the call of play_chess
Main ==
  /\ pc = "main"
  /\ \E logIO \in {"ok", "fail"}, resumeIO \in {"ok", "fail"} :
       /\ player_side' = main_player_side(config, config.random_side)
       /\ show_score' = config.show_score
       /\ engine_limits' = main_engine_limits(config)
       /\ IF config.log_file # {} /\ logIO = "fail"
          THEN /\ RaiseOutside("OSError")
               /\ UNCHANGED << log_file, saved_game, file >>
          ELSE /\ log_file' = IF config.log_file # {} THEN "open" ELSE "None"
               /\ IF config.resumeGame # {} /\ resumeIO = "fail"
                  THEN /\ RaiseOutside("OSError")
                       /\ UNCHANGED << saved_game, file >>
                  ELSE /\ saved_game' = { pickle_load(pickle_dump(b)) : b \in config.resumeGame }
                       /\ file' = IF config.resumeGame # {} THEN "closed" ELSE "unbound"
                       /\ pc' = "play_chess"
                       /\ UNCHANGED << outcome, error, engine, quits >>
  /\ UNCHANGED << config, board, transcript, requests, user_input, rejects,
                  player_score, evaluation, snapshot, applied >>

\* the header block written to the log file
header(side, limits) ==
  << Line("header", <<"=">>),
     Line("header", <<"CHESS TRAIN">>),
     Line("header", <<"-">>),
     Line("header", <<"Player side", IF side = WHITE THEN "WHITE" ELSE "BLACK">>),
     Line("header", <<"Engine Limits">>) >>
  \o (IF limits.time # {} THEN << Line("header", <<"time", TheOne(limits.time)>>) >> ELSE << >>)
  \o (IF limits.depth # {} THEN << Line("header", <<"depth", TheOne(limits.depth)>>) >> ELSE << >>)
  \o << Line("header", <<"=">>) >>

\* variant: the resumed board is not used
initial_board_fresh(saved) == StartBoard

\* the board the session starts from
initial_board(saved) == IF saved # {} THEN TheOne(saved) ELSE StartBoard

\* play_chess up to the start of the engine process
PlayChess ==
  /\ pc = "play_chess"
  /\ \E logIO \in {"ok", "fail"}, popen \in {"ok", "fail"} :
       IF log_file # "None" /\ logIO = "fail"
       THEN /\ RaiseOutside("OSError")
            /\ UNCHANGED << board, transcript >>
       ELSE /\ transcript' = IF log_file # "None"
                             THEN transcript \o header(player_side, engine_limits)
                             ELSE transcript
            /\ board' = initial_board(saved_game)
            /\ IF popen = "fail"
               THEN RaiseOutside("PopenError")
               ELSE /\ engine' = "running"
                    /\ pc' = "while"
                    /\ UNCHANGED << quits, outcome, error >>
  /\ UNCHANGED << config, player_side, show_score, engine_limits, log_file,
                  saved_game, file, requests, user_input, rejects,
                  player_score, evaluation, snapshot, applied >>

\* ------------------------------------------------------------ the turn loop
\* variant: the test of the side to move is inverted
turn_state_swapped(b, side) == IF b.turn # side THEN "input" ELSE "play"

\* the state the coordinator is in after the loop test (and the evaluation)
turn_state(b, side) == IF b.turn = side THEN "input" ELSE "play"

\* variant: the loop does not test for the end of the game
WhileTrue ==
  /\ pc = "while"
  /\ pc' = IF show_score THEN "analyse" ELSE turn_state(board, player_side)
  /\ UNCHANGED << engine, quits >>
  /\ UNCHANGED << config, player_side, show_score, engine_limits, log_file,
                  saved_game, file, board, transcript, requests, user_input,
                  rejects, player_score, evaluation, snapshot, outcome, error, applied >>

\* while not board.is_game_over()
While ==
  /\ pc = "while"
  /\ IF is_game_over(board)
     THEN /\ pc' = "report"
          /\ LeaveWith
     ELSE /\ pc' = IF show_score THEN "analyse" ELSE turn_state(board, player_side)
          /\ UNCHANGED << engine, quits >>
  /\ UNCHANGED << config, player_side, show_score, engine_limits, log_file,
                  saved_game, file, board, transcript, requests, user_input,
                  rejects, player_score, evaluation, snapshot, outcome, error, applied >>

Request(kind, limit) ==
  [kind |-> kind, limit |-> limit, ply |-> Len(board.move_stack),
   turn |-> board.turn, over |-> is_game_over(board)]

RECURSIVE Pow10(_)
Pow10(k) == IF k = 0 THEN 1 ELSE 10 * Pow10(k - 1)

\* centipawn scores the engine reports, multiples of 400 so that the
\* logistic value 1 / (1 + 10 ** (-e / 400)) is the rational 10^k / (10^k + 1)
Scores == { -400, 0, 400 }

\* a probability is a pair << numerator, denominator >>
calculate_win_probabilities(evaluation_score) ==
  IF evaluation_score > 0
  THEN LET k == evaluation_score \div 400
           white_win_probability == << Pow10(k), Pow10(k) + 1 >>
       IN  << white_win_probability, << 1, Pow10(k) + 1 >> >>
  ELSE IF evaluation_score < 0
  THEN LET k == (- evaluation_score) \div 400
           black_win_probability == << Pow10(k), Pow10(k) + 1 >>
       IN  << << 1, Pow10(k) + 1 >>, black_win_probability >>
  ELSE << << 1, 2 >>, << 1, 2 >> >>

\* f"{player_score:.2%}": hundredths of a percent, rounded
percent(p) == (2 * 10000 * p[1] + p[2]) \div (2 * p[2])

\* what engine.analyse can answer: a centipawn score relative to the side to
\* move, a mate marker (score() is None), or a failure
AnalyseReplies ==
  { [tag |-> "cp", cp |-> e] : e \in Scores }
  \cup { [tag |-> "mate", cp |-> 0], [tag |-> "fail", cp |-> 0] }

\* the show_score block at the top of the loop body
Analyse ==
  /\ pc = "analyse"
  /\ requests' = Append(requests, Request("analyse", engine_limits))
  /\ \E reply \in AnalyseReplies :
       IF reply.tag = "fail"
       THEN /\ RaiseInside("EngineError")
            /\ evaluation' = [NoEvaluation EXCEPT !.tag = "fail", !.turn = board.turn]
            /\ UNCHANGED player_score
       ELSE IF reply.tag = "mate"
       THEN /\ RaiseInside("TypeError")
            /\ evaluation' = [NoEvaluation EXCEPT !.tag = "mate", !.turn = board.turn]
            /\ UNCHANGED player_score
       ELSE LET probs == calculate_win_probabilities(reply.cp) IN
            /\ evaluation' = [tag |-> "cp", cp |-> reply.cp, turn |-> board.turn,
                               probs |-> probs]
            /\ player_score' = IF player_side = WHITE THEN probs[1] ELSE probs[2]
            /\ pc' = turn_state(board, player_side)
            /\ UNCHANGED << engine, quits, outcome, error >>
  /\ UNCHANGED << config, player_side, show_score, engine_limits, log_file,
                  saved_game, file, board, transcript, user_input, rejects,
                  snapshot, applied >>


\* the branch of the if-chain on user_input that is taken
command(u) ==
  IF u = S_help THEN "help"
  ELSE IF u = S_saveState \/ Take(u, 11) = S_saveState \o <<" ">> THEN "saveState"
  ELSE IF u = S_bestMove THEN "bestMove"
  ELSE "move"

\* variant: the move is not looked up in board.legal_moves
get_user_move_unchecked(b, u) ==
  IF ~ is_uci_move(u) THEN [ok |-> FALSE, move |-> << >>]
  ELSE [ok |-> TRUE, move |-> u]

\* get_user_move: the move, or ValueError
get_user_move(b, u) ==
  IF ~ is_uci_move(u) THEN [ok |-> FALSE, move |-> << >>]
  ELSE IF u \in legal_moves(b) THEN [ok |-> TRUE, move |-> u]
  ELSE [ok |-> FALSE, move |-> << >>]

\* the value bound to the name move on each path
user_value(m)        == [tag |-> "Move", uci |-> m]
engine_value(reply)  == [tag |-> IF reply.tag = "none" THEN "None" ELSE "Move", uci |-> reply.move]
bestmove_value(reply) == [tag |-> "PlayResult", uci |-> reply.move]

\* what engine.play can answer: a move the library has parsed on the
\* position, no move, or a failure
PlayReplies(b) ==
  { [tag |-> "move", move |-> m] : m \in legal_moves(b) }
  \cup { [tag |-> "none", move |-> << >>], [tag |-> "fail", move |-> << >>] }

\* variant: with show_score only the probability line is written
move_lines_either(b) ==
  IF show_score
  THEN << Line("prob", << percent(player_score) >>) >>
  ELSE << Line("move", b.move_stack[Len(b.move_stack)]) >>

\* the lines written for one half-move
move_lines(b) ==
  (IF show_score THEN << Line("prob", << percent(player_score) >>) >> ELSE << >>)
  \o << Line("move", b.move_stack[Len(b.move_stack)]) >>

\* board.push(move) and the rest of the loop body
ApplyMove(v, io) ==
  IF v.tag # "Move"
  THEN /\ RaiseInside("AttributeError")
       /\ UNCHANGED << board, transcript, applied >>
  ELSE /\ board' = push(board, v.uci)
       /\ applied' = Append(applied, [from |-> Position(board), move |-> v.uci])
       /\ IF log_file # "None" /\ io = "fail"
          THEN /\ RaiseInside("OSError")
               /\ UNCHANGED transcript
          ELSE /\ transcript' = IF log_file # "None"
                                THEN transcript \o move_lines(board')
                                ELSE transcript
               /\ pc' = "while"
               /\ UNCHANGED << engine, quits, outcome, error >>

\* variant: the !help branch lacks its continue and reaches board.push
HelpFallsThrough ==
  /\ pc = "input"
  /\ rejects < MaxRejects
  /\ \E u \in UserInputs :
       /\ command(u) = "help"
       /\ user_input' = u
  /\ rejects' = rejects + 1
  /\ RaiseInside("UnboundLocalError")
  /\ UNCHANGED << config, player_side, show_score, engine_limits, log_file,
                  saved_game, file, board, transcript, requests,
                  player_score, evaluation, snapshot, applied >>

\* !help
Help ==
  /\ pc = "input"
  /\ rejects < MaxRejects
  /\ \E u \in UserInputs :
       /\ command(u) = "help"
       /\ user_input' = u
  /\ rejects' = rejects + 1
  /\ pc' = "while"
  /\ UNCHANGED << config, player_side, show_score, engine_limits, log_file,
                  saved_game, file, board, transcript, engine, quits,
                  requests, player_score, evaluation, snapshot, outcome, error, applied >>

save_file_path(u, now) ==
  IF Len(u) > 11 /\ strip(split(u, " ", 2)[2]) # << >>
  THEN split(u, " ", 2)[2]
  ELSE S_log_ \o now \o S_chess

\* !saveState [saveFilePath]
SaveState ==
  /\ pc = "input"
  /\ \E u \in UserInputs, now \in Timestamps, io \in {"ok", "fail"} :
       /\ command(u) = "saveState"
       /\ user_input' = u
       /\ IF io = "fail"
          THEN /\ RaiseInside("OSError")
               /\ UNCHANGED snapshot
          ELSE /\ snapshot' = { [path |-> save_file_path(u, now), bytes |-> pickle_dump(board)] }
               /\ LeaveWith
               /\ outcome' = "Saved"
               /\ pc' = "shutdown"
               /\ UNCHANGED error
  /\ UNCHANGED << config, player_side, show_score, engine_limits, log_file,
                  saved_game, file, board, transcript, requests, rejects,
                  player_score, evaluation, applied >>

\* !bestMove
BestMove ==
  /\ pc = "input"
  /\ \E u \in UserInputs, reply \in PlayReplies(board), io \in {"ok", "fail"} :
       /\ command(u) = "bestMove"
       /\ user_input' = u
       /\ requests' = Append(requests, Request("bestMove", NoLimit))
       /\ IF reply.tag = "fail"
          THEN /\ RaiseInside("EngineError")
               /\ UNCHANGED << board, transcript, applied >>
          ELSE ApplyMove(bestmove_value(reply), io)
  /\ UNCHANGED << config, player_side, show_score, engine_limits, log_file,
                  saved_game, file, rejects, player_score, evaluation, snapshot >>

\* any other input: a move in coordinate notation, or rejected
UserMove ==
  /\ pc = "input"
  /\ \E u \in UserInputs, io \in {"ok", "fail"} :
       /\ command(u) = "move"
       /\ user_input' = u
       /\ LET r == get_user_move(board, u) IN
          IF r.ok
          THEN /\ ApplyMove(user_value(r.move), io)
               /\ UNCHANGED rejects
          ELSE /\ rejects < MaxRejects
               /\ rejects' = rejects + 1
               /\ pc' = "while"
               /\ UNCHANGED << board, transcript, applied, engine, quits,
                               outcome, error >>
  /\ UNCHANGED << config, player_side, show_score, engine_limits, log_file,
                  saved_game, file, requests, player_score, evaluation, snapshot >>

\* input() fails: the standard input is closed
InputEOF ==
  /\ pc = "input"
  /\ RaiseInside("EOFError")
  /\ UNCHANGED << config, player_side, show_score, engine_limits, log_file,
                  saved_game, file, board, transcript, requests, user_input,
                  rejects, player_score, evaluation, snapshot, applied >>

\* variant: the move line is logged before the reply is looked at
EnginePlayLogsFirst ==
  /\ pc = "play"
  /\ requests' = Append(requests, Request("play", engine_limits))
  /\ \E reply \in PlayReplies(board), io \in {"ok", "fail"} :
       IF reply.tag = "fail"
       THEN /\ RaiseInside("EngineError")
            /\ transcript' = Append(transcript, Line("move", reply.move))
            /\ UNCHANGED << board, applied >>
       ELSE ApplyMove(engine_value(reply), io)
  /\ UNCHANGED << config, player_side, show_score, engine_limits, log_file,
                  saved_game, file, user_input, rejects, player_score, evaluation,
                  snapshot >>

\* the engine's turn
EnginePlay ==
  /\ pc = "play"
  /\ requests' = Append(requests, Request("play", engine_limits))
  /\ \E reply \in PlayReplies(board), io \in {"ok", "fail"} :
       IF reply.tag = "fail"
       THEN /\ RaiseInside("EngineError")
            /\ UNCHANGED << board, transcript, applied >>
       ELSE ApplyMove(engine_value(reply), io)
  /\ UNCHANGED << config, player_side, show_score, engine_limits, log_file,
                  saved_game, file, user_input, rejects, player_score, evaluation,
                  snapshot >>

\* after the loop: the result is printed and written to the log file
Report ==
  /\ pc = "report"
  /\ \E io \in {"ok", "fail"} :
       IF log_file = "None"
       THEN /\ RaiseOutside("AttributeError")
            /\ UNCHANGED transcript
       ELSE IF io = "fail"
       THEN /\ RaiseOutside("OSError")
            /\ UNCHANGED transcript
       ELSE /\ transcript' = Append(transcript, Line("result", << result(board) >>))
            /\ outcome' = "Terminal"
            /\ pc' = "shutdown"
            /\ UNCHANGED << engine, quits, error >>
  /\ UNCHANGED << config, player_side, show_score, engine_limits, log_file,
                  saved_game, file, board, requests, user_input, rejects,
                  player_score, evaluation, snapshot, applied >>

\* file.close() at the end of the __main__ block
Shutdown ==
  /\ pc = "shutdown"
  /\ pc' = "exit"
  /\ error' = IF file = "unbound" THEN "NameError" ELSE error
  /\ UNCHANGED << config, player_side, show_score, engine_limits, log_file,
                  saved_game, file, board, transcript, engine, quits,
                  requests, user_input, rejects, player_score, evaluation, snapshot,
                  outcome, applied >>

Next ==
  \/ Main
  \/ PlayChess
  \/ While
  \/ Analyse
  \/ Help
  \/ SaveState
  \/ BestMove
  \/ UserMove
  \/ InputEOF
  \/ EnginePlay
  \/ Report
  \/ Shutdown

Spec == Init /\ [][Next]_vars

TypeOK ==
  /\ pc \in {"main", "play_chess", "while", "analyse", "input", "play",
             "report", "shutdown", "exit"}
  /\ engine \in {"absent", "running", "closed"}
  /\ outcome \in {"running", "Saved", "Terminal", "Raised"}
  /\ rejects \in 0..MaxRejects


\* ================================================================== claims
CountKind(lines, kind) == Cardinality({ i \in DOMAIN lines : lines[i].kind = kind })

\* the coordinator's state as the side to move determines it
CoordinatorState(b) ==
  IF is_game_over(b) THEN "Terminal"
  ELSE IF b.turn = player_side THEN "AwaitingHumanInput"
  ELSE "AwaitingEngineMove"

\* a step in which input() returned a line
InputRead == pc = "input" /\ pc' # "input" /\ error' # "EOFError"

IsSaveStateCommand(u) ==
  \/ u = S_saveState
  \/ Len(u) >= 11 /\ SubSeq(u, 1, 11) = S_saveState \o <<" ">>

\* ---- C1
\* C1: in AwaitingHumanInput an input that is not a legal coordinate move,
\* !bestMove or !saveState leaves the position, the history and the
\* transcript unchanged; the session is not ended and control returns to the
\* loop with the coordinator still in AwaitingHumanInput.
C1_Rejected(u, b) ==
  /\ u \notin legal_moves(b)
  /\ u # S_bestMove
  /\ ~ IsSaveStateCommand(u)

C1_RejectedInputKeepsState ==
  [][ (InputRead /\ C1_Rejected(user_input', board))
      => /\ board' = board
         /\ applied' = applied
         /\ transcript' = transcript
         /\ snapshot' = snapshot
         /\ outcome' = "running"
         /\ error' = "none"
         /\ engine' = "running"
         /\ pc' = "while"
         /\ CoordinatorState(board') = "AwaitingHumanInput" ]_vars

C1_Witness ==
  /\ user_input = e2e1
  /\ board = StartBoard
  /\ rejects > 0
  /\ pc = "while"
  /\ outcome = "running"

\* ---- C2
\* C2: every move that has been applied to the position was a member of the
\* legal-move set of the position it was applied to.
C2_AppliedMovesLegal ==
  /\ \A i \in DOMAIN applied : applied[i].move \in legal_moves(applied[i].from)
  /\ Len(board.move_stack) >= Len(applied)
  /\ \A i \in DOMAIN applied :
       board.move_stack[Len(board.move_stack) - Len(applied) + i] = applied[i].move

\* a human move and an engine move have both been applied
C2_Witness ==
  /\ Len(applied) = 2
  /\ Len(requests) > 0
  /\ user_input \in {e2e4, g1f3, e7e5, d8h4}

\* ---- C3
\* C3: once started, the engine process is disposed exactly once on every
\* way out of the turn loop, never twice, and it is not running after
\* play_chess has returned or raised.
C3_EngineDisposedOnce ==
  /\ quits <= 1
  /\ engine = "running" => (quits = 0 /\ pc \in {"while", "analyse", "input", "play"})
  /\ engine = "absent" => quits = 0
  /\ engine = "closed" => quits = 1
  /\ (pc \in {"report", "shutdown", "exit"} /\ engine # "absent")
       => (engine = "closed" /\ quits = 1)
  /\ outcome \in {"Saved", "Terminal"} => (engine = "closed" /\ quits = 1)
  /\ error \in {"EngineError", "TypeError", "AttributeError", "EOFError"}
       => (engine = "closed" /\ quits = 1)

\* the loop was left by a failed engine request after a move had been played
C3_Witness ==
  /\ error = "EngineError"
  /\ Len(applied) > 0
  /\ engine = "closed"
  /\ quits = 1

\* ---- C4
\* C4: the terminal status is checked after every half-move before any
\* further prompt or engine request; no move is applied to a terminal
\* position; a result line is written at most once and after every move
\* line, and a session that ended in Terminal has exactly one result line,
\* the last line of the transcript, giving the result of the position.
C4_TerminalCheckedAfterEveryMove ==
  /\ pc \in {"analyse", "input", "play"} => ~ is_game_over(board)
  /\ \A i \in DOMAIN applied : ~ is_game_over(applied[i].from)
  /\ \A i \in DOMAIN requests :
       requests[i].ply < DrawClock /\ requests[i].ply <= Len(board.move_stack)
  /\ CountKind(transcript, "result") <= 1
  /\ \A i \in DOMAIN transcript :
       transcript[i].kind = "result" => i = Len(transcript)
  /\ outcome = "Terminal"
       => /\ is_game_over(board)
          /\ CountKind(transcript, "result") = 1
          /\ transcript[Len(transcript)] = Line("result", << result(board) >>)
  /\ (pc \in {"shutdown", "exit"} /\ engine = "closed" /\ is_game_over(board)
        /\ log_file # "None" /\ error # "OSError")
       => outcome = "Terminal"

\* the game ended by checkmate after moves of both sides
C4_Witness ==
  /\ outcome = "Terminal"
  /\ board.mated
  /\ Len(applied) >= 2
  /\ CountKind(transcript, "move") = Len(applied)


\* ---- C5
\* C5: with no log file configured a session that reaches a terminal
\* position ends normally: no transcript write is attempted and no failure
\* is raised, the step that reports the result included.
C5_NoLogSessionEndsNormally ==
  (config.log_file = {} /\ pc \in {"shutdown", "exit"} /\ engine = "closed"
     /\ is_game_over(board))
    => (outcome = "Terminal" /\ transcript = << >> /\ error # "AttributeError")

\* ---- C6
\* the blank-separated words of a string
RECURSIVE C6_Words(_)
C6_Words(s) ==
  IF s = << >> THEN << >>
  ELSE IF Head(s) = " " THEN C6_Words(Tail(s))
  ELSE LET i == Find(s, " ", 1) IN
       IF i = 0 THEN << s >>
       ELSE << SubSeq(s, 1, i - 1) >> \o C6_Words(SubSeq(s, i + 1, Len(s)))

C6_Arguments(u) == C6_Words(SubSeq(u, Len(S_saveState) + 1, Len(u)))

\* C6: after !saveState the session is in Saved with a snapshot of the
\* unchanged current position and no result line; the snapshot's file name
\* is log_<timestamp>.chess when no argument follows the command, and
\* otherwise the first blank-separated word after the command.
C6_SaveStateSnapshot ==
  outcome = "Saved"
    => /\ ~ is_game_over(board)
       /\ board.turn = player_side
       /\ CountKind(transcript, "result") = 0
       /\ snapshot # {}
       /\ \A f \in snapshot :
            /\ f.bytes = pickle_dump(board)
            /\ IF C6_Arguments(user_input) = << >>
               THEN f.path \in { S_log_ \o now \o S_chess : now \in Timestamps }
               ELSE f.path = C6_Arguments(user_input)[1]

\* ---- C7
\* C7: !bestMove applies the move the engine returns: the position is the
\* previous position advanced by a legal move, the history is one longer,
\* one move line is logged and the loop continues with the terminal check.
C7_BestMoveApplied ==
  [][ (InputRead /\ user_input' = S_bestMove /\ error' \notin {"EngineError", "OSError"})
      => /\ Len(applied') = Len(applied) + 1
         /\ applied'[Len(applied')].from = Position(board)
         /\ applied'[Len(applied')].move \in legal_moves(board)
         /\ board' = push(board, applied'[Len(applied')].move)
         /\ log_file # "None"
              => CountKind(transcript', "move") = CountKind(transcript, "move") + 1
         /\ pc' = "while" ]_vars

\* ---- C8
\* C8: every request sent to the engine carries limits with at least one
\* bound set, and the time bound is 1 when the configuration sets none.
C8_RequestsBounded ==
  \A i \in DOMAIN requests :
    /\ requests[i].limit.time # {} \/ requests[i].limit.depth # {}
    /\ config.time = {} => requests[i].limit.time = {DEFAULT_MAX_ENGINE_LIMIT}

\* ---- C9
\* C9: when an engine move request fails no move is applied: the position,
\* the history and the transcript are as they were before the request.
C9_FailedMoveRequestAppliesNothing ==
  [][ (pc \in {"input", "play"} /\ error' = "EngineError")
      => /\ board' = board
         /\ applied' = applied
         /\ transcript' = transcript ]_vars

\* the engine failed on its turn after the human's first move was logged
C9_Witness ==
  /\ error = "EngineError"
  /\ requests # << >>
  /\ requests[Len(requests)].kind = "play"
  /\ Len(applied) = 1
  /\ CountKind(transcript, "move") = 1

\* ---- C10
\* C10: a failed engine request does not end the session: it stays alive in
\* a state from which the user can retry or abort.
C10_EngineFailureKeepsSession ==
  error = "EngineError"
    => /\ outcome = "running"
       /\ engine = "running"
       /\ pc \in {"while", "analyse", "input", "play"}


\* ---- C11
\* the evaluation requests sent while the history had the given length
C11_Evaluations(ply) ==
  { i \in DOMAIN requests : requests[i].kind = "analyse" /\ requests[i].ply = ply }

\* C11: with show_score the evaluation is requested exactly once per
\* half-move, however many !help commands or rejected inputs come in
\* between, and the value logged with a move is the one computed for it.
C11_OneEvaluationPerHalfMove ==
  show_score
    => /\ \A ply \in 0..Len(board.move_stack) : Cardinality(C11_Evaluations(ply)) <= 1
       /\ \A i \in DOMAIN applied :
            Cardinality(C11_Evaluations(Len(board.move_stack) - Len(applied) + i - 1)) = 1
       /\ \A i \in DOMAIN transcript :
            (transcript[i].kind = "prob" /\ i = Len(transcript) - 1)
              => transcript[i].val = << percent(player_score) >>

\* ---- C12
\* C12: when the evaluation is a forced-mate marker the turn proceeds with
\* a saturating probability: no failure is raised and the session goes on.
C12_MateMarkerHandled ==
  evaluation.tag = "mate"
    => /\ error = "none"
       /\ outcome # "Raised"
       /\ pc # "exit"

\* ---- C13
\* p < q for probabilities
C13_Less(p, q) == p[1] * q[2] < q[1] * p[2]

\* the probability of the side to move and of the other side
C13_Mover(ev) == IF ev.turn = WHITE THEN ev.probs[1] ELSE ev.probs[2]
C13_Other(ev) == IF ev.turn = WHITE THEN ev.probs[2] ELSE ev.probs[1]

\* C13: for a centipawn score e relative to the side to move, e = 0 gives
\* (0.5, 0.5), e > 0 gives the side to move the larger probability and
\* e < 0 the smaller one, for either side to move, and the two
\* probabilities sum to 1.
C13_SignConvention ==
  evaluation.tag = "cp"
    => /\ evaluation.cp = 0 => evaluation.probs = << << 1, 2 >>, << 1, 2 >> >>
       /\ evaluation.cp > 0 => C13_Less(C13_Other(evaluation), C13_Mover(evaluation))
       /\ evaluation.cp < 0 => C13_Less(C13_Mover(evaluation), C13_Other(evaluation))
       /\ evaluation.probs[1][2] = evaluation.probs[2][2]
       /\ evaluation.probs[1][1] + evaluation.probs[2][1] = evaluation.probs[1][2]


\* ---- C14
\* C14: when writing the snapshot fails the session stays in
\* AwaitingHumanInput with position and history unchanged and the user is
\* prompted again.
C14_FailedSaveKeepsSession ==
  (IsSaveStateCommand(user_input) /\ error = "OSError")
    => /\ outcome = "running"
       /\ engine = "running"
       /\ pc \in {"while", "analyse", "input"}
       /\ CoordinatorState(board) = "AwaitingHumanInput"

\* ---- C15
\* the moves of the move lines, in the order written
C15_MoveLines == SelectSeq(transcript, LAMBDA l : l.kind = "move")

\* C15: with a log file, after any sequence of commands and engine replies
\* the move lines written in this session are the half-moves applied in
\* this session, one line each and in order.  (A session that the operating
\* system ends by failing the write to the log file is left with the last
\* half-move applied and its line missing; the second disjunct pins that
\* state down.)
C15_OneMoveLinePerHalfMove ==
  log_file # "None"
    => \/ /\ Len(C15_MoveLines) = Len(applied)
          /\ \A i \in DOMAIN applied : C15_MoveLines[i].val = applied[i].move
       \/ /\ error = "OSError"
          /\ pc = "exit"
          /\ Len(C15_MoveLines) = Len(applied) - 1
          /\ \A i \in DOMAIN C15_MoveLines : C15_MoveLines[i].val = applied[i].move

\* e2e4 was entered as White from the start position and logged
C15_Witness ==
  /\ log_file # "None"
  /\ player_side = WHITE
  /\ user_input = e2e4
  /\ applied = << [from |-> Position(StartBoard), move |-> e2e4] >>
  /\ board.turn = BLACK
  /\ Len(board.move_stack) = 1
  /\ CountKind(transcript, "move") = 1
  /\ pc = "while"

C17_SideChosen ==
  pc # "main"
    => /\ config.side = {} => player_side = config.random_side
       /\ config.side = {"WHITE"} => player_side = WHITE
       /\ config.side = {"BLACK"} => player_side = BLACK

\* ---- C18
\* C18: when the session has ended in Terminal or Saved and the program has
\* shut down, the transcript file handle has been released and the
\* shutdown step has raised no failure.
C18_LogFileReleased ==
  (pc = "exit" /\ outcome \in {"Terminal", "Saved"})
    => /\ log_file # "open"
       /\ error = "none"

\* ---- C19
\* C19: a human command is read only in a non-terminal position with the
\* player's side to move; a move request with the configured limits is
\* sent only in a non-terminal position with the engine's side to move.
C19_StateMatchesSideToMove ==
  /\ pc = "input" => CoordinatorState(board) = "AwaitingHumanInput"
  /\ pc = "play" => CoordinatorState(board) = "AwaitingEngineMove"
  /\ pc = "analyse" => ~ is_game_over(board)
  /\ \A i \in DOMAIN requests :
       /\ ~ requests[i].over
       /\ requests[i].kind = "play"
            => (requests[i].turn # player_side /\ requests[i].limit = engine_limits)
       /\ requests[i].kind = "bestMove" => requests[i].turn = player_side
  /\ \A i \in DOMAIN applied :
       (i > 1 /\ ~ is_game_over(applied[i].from))
         => applied[i].from.turn # applied[i - 1].from.turn

\* the human is prompted after the engine has answered a move request
C19_Witness ==
  /\ pc = "input"
  /\ Len(applied) >= 1
  /\ \E i \in DOMAIN requests : requests[i].kind = "play"

\* ---- C20
\* C20: in a session resumed from a terminal snapshot the loop body never
\* runs: no command is read, no request is sent, no move line is written;
\* the engine is started and disposed once and the result is reported.
C20_TerminalSnapshotSkipsLoop ==
  (config.resumeGame # {} /\ is_game_over(TheOne(config.resumeGame)))
    => /\ requests = << >>
       /\ user_input = << >>
       /\ rejects = 0
       /\ applied = << >>
       /\ CountKind(transcript, "move") = 0
       /\ evaluation = NoEvaluation
       /\ outcome # "Saved"
       /\ pc \in {"main", "play_chess", "while", "report", "shutdown", "exit"}
       /\ pc = "while" => (engine = "running" /\ quits = 0 /\ is_game_over(board))
       /\ pc \in {"report", "shutdown"} => (engine = "closed" /\ quits = 1)
       /\ engine = "closed" => quits = 1

\* the terminal snapshot was loaded, the engine started and disposed, and
\* the result is about to be reported
C20_Witness ==
  /\ config.resumeGame # {}
  /\ is_game_over(TheOne(config.resumeGame))
  /\ pc = "report"
  /\ board = TheOne(config.resumeGame)
  /\ engine = "closed"
  /\ quits = 1

====
